---- MODULE Spec2Model ----
(***************************************************************************)
(* Model of examples/pytorch_resnet50_training.py: the orchestration of    *)
(* train_model (dataset precondition, model head, epoch loop, training     *)
(* iteration, evaluation, checkpoint-on-improvement policy).               *)
(*                                                                         *)
(* Accuracies are integers in units of 1/10000 (0 .. 10000 stands for      *)
(* 0.0 .. 1.0).  An Optional[int] is a set: {} is None, {v} is the int v.  *)
(***************************************************************************)
EXTENDS Integers, Sequences, FiniteSets

VARIABLES
  cfg,          \* TrainConfig: epochs, batch_size, num_classes
  data,         \* dataset root: hasTrain, hasVal, classes, nTrain, nVal
  outDir,       \* cfg.output_dir exists on disk
  files,        \* files in cfg.output_dir: [name, epoch, val_top1]
  outDir0,      \* outDir when the run started
  files0,       \* files when the run started
  pc,           \* position of the process
  exitCode,     \* -1 while running, then the process's exit status
  error,        \* the uncaught exception that ended the process, or "none"
  modelBuilt,   \* build_model has returned
  headOut,      \* out_features of the nn.Linear head
  trainBatches, \* len(train_loader)
  valBatches,   \* len(val_loader)
  epoch,        \* loop variable of train_model
  epochLog,     \* epochs entered so far, in order
  elog,         \* phases of epoch `epoch` completed so far, in order
  step,         \* batches of the current epoch fully processed by train_one_epoch
  ops,          \* operations done so far on the current batch, in order
  grads,        \* number of backward passes accumulated in .grad since the last reset
  found_inf,    \* GradScaler: unscale_ found inf/NaN gradients for this batch
  stepCalls,    \* scaler.step(optimizer) calls in the current epoch
  optSteps,     \* optimizer.step() actually applied in the current epoch
  stepGrads,    \* values of grads seen by scaler.step in the current epoch
  iters,        \* training iterations started in the run
  vstep,        \* validation batches processed in the current evaluate call
  evals,        \* evaluate calls completed in the run
  val_acc,      \* result of the last evaluate
  best_acc,     \* best validation accuracy so far
  accs,         \* val_acc of every epoch whose checkpoint decision is done
  written,      \* save_checkpoint calls of this run, in order
  summaries     \* epoch-summary lines printed in the run

vars == <<cfg, data, outDir, files, outDir0, files0, pc, exitCode, error,
          modelBuilt, headOut, trainBatches, valBatches, epoch, epochLog, elog,
          step, ops, grads, found_inf, stepCalls, optSteps, stepGrads, iters,
          vstep, evals, val_acc, best_acc, accs, written, summaries>>

\* ------------------------------------------------------------------ bounds

MaxEpochs == 3

DefaultBatchSize == 64

Epochs == 1..MaxEpochs
BatchSizes == {DefaultBatchSize, 100}
TrainSizes == {4, 128}
ValSizes == {2, 130}
ClassCounts == {2, 3}
Overrides == {{}, {0}, {5}}
AccValues == {0, 4996, 5004, 10000}

\* ------------------------------------------------------------------ helpers

RECURSIVE Digits(_)
Digits(n) == IF n < 10 THEN <<n>> ELSE Append(Digits(n \div 10), n % 10)

\* format spec 03d: decimal digits, zero-padded to a width of at least 3
Fmt03d(n) ==
  LET d == Digits(n)
  IN IF Len(d) = 1 THEN <<0, 0>> \o d
     ELSE IF Len(d) = 2 THEN <<0>> \o d
     ELSE d

\* format spec .3f: rounded to three decimals (integer part, then 3 digits)
Fmt3f(m) ==
  LET t == (m + 5) \div 10
  IN Digits(t \div 1000) \o <<(t \div 100) % 10, (t \div 10) % 10, t % 10>>

CkptNameNoEpoch(e, metric) == <<"resnet50_epoch", <<>>, "_acc", Fmt3f(metric), ".pt">>

CkptName(e, metric) == <<"resnet50_epoch", Fmt03d(e), "_acc", Fmt3f(metric), ".pt">>

MissingDirsBoth(hasTrain, hasVal) == ~hasTrain /\ ~hasVal

MissingDirs(hasTrain, hasVal) == ~hasTrain \/ ~hasVal

\* len(DataLoader) over n samples
LenLoader(n, batch_size, drop_last) ==
  IF drop_last THEN n \div batch_size ELSE (n + batch_size - 1) \div batch_size

\* cfg.num_classes or inferred_classes (None and 0 are falsy)
ResolveClasses(num_classes, inferred_classes) ==
  IF num_classes # {} /\ num_classes # {0}
  THEN CHOOSE v \in num_classes : TRUE
  ELSE inferred_classes

ImprovesOrTies(v, best) == v >= best

Improves(v, best) == v > best

\* Path.mkdir(parents=True, exist_ok=True): succeeds whether or not the directory exists
MkdirNoExistOk(exists) == [ok |-> ~exists, dir |-> TRUE]

Mkdir(exists) == [ok |-> TRUE, dir |-> TRUE]

NewBestKeeps(v, best) == best

\* best_acc = val_acc
NewBest(v, best) == v

ZeroGradKeeps(g) == g

\* optimizer.zero_grad(set_to_none=True)
ZeroGradResult(g) == 0

\* body of the epoch loop of train_model, in program order
EpochBodyEarlyCkpt ==
  <<"train_one_epoch", "checkpoint", "evaluate", "scheduler_step", "print_summary">>

EpochBody ==
  <<"train_one_epoch", "evaluate", "scheduler_step", "print_summary", "checkpoint">>

\* body of the batch loop of train_one_epoch, in program order
IterBody ==
  <<"zero_grad", "forward", "backward", "unscale", "clip_grad_norm", "scaler_step",
    "scaler_update">>

IndexOf(s, x) == CHOOSE i \in 1..Len(s) : s[i] = x

\* position after phase p of the epoch body
AfterPhase(p) ==
  LET i == IndexOf(EpochBody, p)
  IN IF i < Len(EpochBody) THEN EpochBody[i + 1] ELSE "epoch_end"

\* position after operation o of the batch body
AfterOp(o) ==
  LET i == IndexOf(IterBody, o)
  IN IF i < Len(IterBody) THEN IterBody[i + 1] ELSE "batch_end"

Running == exitCode = -1

Range(s) == {s[i] : i \in 1..Len(s)}

\* ------------------------------------------------------------------ Init

Init ==
  /\ cfg \in [epochs : Epochs, batch_size : BatchSizes, num_classes : Overrides]
  /\ data \in [hasTrain : BOOLEAN, hasVal : BOOLEAN, classes : ClassCounts,
               nTrain : TrainSizes, nVal : ValSizes]
  /\ outDir \in BOOLEAN
  /\ files \in IF outDir
               THEN {{}, {[name |-> CkptName(1, 5004), epoch |-> 1, val_top1 |-> 5004]}}
               ELSE {{}}
  /\ outDir0 = outDir
  /\ files0 = files
  /\ pc = "start"
  /\ exitCode = -1
  /\ error = "none"
  /\ modelBuilt = FALSE
  /\ headOut = 0
  /\ trainBatches = 0
  /\ valBatches = 0
  /\ epoch = 0
  /\ epochLog = <<>>
  /\ elog = <<>>
  /\ step = 0
  /\ ops = <<>>
  /\ grads = 0
  /\ found_inf = FALSE
  /\ stepCalls = 0
  /\ optSteps = 0
  /\ stepGrads = {}
  /\ iters = 0
  /\ vstep = 0
  /\ evals = 0
  /\ val_acc = 0
  /\ best_acc = 0
  /\ accs = <<>>
  /\ written = <<>>
  /\ summaries = 0

\* ------------------------------------------------------------------ actions

envVars == <<cfg, data, outDir0, files0>>
fsVars == <<outDir, files>>
modelVars == <<modelBuilt, headOut, trainBatches, valBatches>>
loopVars == <<epoch, epochLog, elog>>
batchVars == <<step, ops, grads, found_inf, stepCalls, optSteps, stepGrads, iters>>
evalVars == <<vstep, evals, val_acc>>
ckptVars == <<best_acc, accs, written>>

\* an uncaught exception ends the process with a nonzero exit status
Raise(exc) ==
  /\ pc' = "failed"
  /\ exitCode' = 1
  /\ error' = exc

Goto(p) ==
  /\ pc' = p
  /\ UNCHANGED <<exitCode, error>>

\* train_model up to the precondition check of build_dataloaders, which fails
build_dataloaders_raises ==
  /\ pc = "start"
  /\ MissingDirs(data.hasTrain, data.hasVal)
  /\ Raise("FileNotFoundError")
  /\ UNCHANGED <<envVars, fsVars, modelVars, loopVars, batchVars, evalVars, ckptVars,
                 summaries>>

\* set_seed, then build_dataloaders returns the loaders and the class count
build_dataloaders ==
  /\ pc = "start"
  /\ ~MissingDirs(data.hasTrain, data.hasVal)
  /\ trainBatches' = LenLoader(data.nTrain, cfg.batch_size, TRUE)
  /\ valBatches' = LenLoader(data.nVal, cfg.batch_size, FALSE)
  /\ Goto("build_model")
  /\ UNCHANGED <<envVars, fsVars, modelBuilt, headOut, loopVars, batchVars, evalVars,
                 ckptVars, summaries>>

\* num_classes, build_model, optimizer, scheduler, scaler, best_acc = 0.0, loop entry
build_model ==
  /\ pc = "build_model"
  /\ headOut' = ResolveClasses(cfg.num_classes, data.classes)
  /\ modelBuilt' = TRUE
  /\ best_acc' = 0
  /\ IF 1 <= cfg.epochs
     THEN epoch' = 1 /\ Goto("epoch_start")
     ELSE epoch' = epoch /\ pc' = "done" /\ exitCode' = 0 /\ error' = error
  /\ UNCHANGED <<envVars, fsVars, trainBatches, valBatches, epochLog, elog, batchVars,
                 evalVars, accs, written, summaries>>

\* top of one pass of the epoch loop; train_one_epoch is entered
epoch_start ==
  /\ pc = "epoch_start"
  /\ epochLog' = Append(epochLog, epoch)
  /\ step' = 0
  /\ ops' = <<>>
  /\ stepCalls' = 0
  /\ optSteps' = 0
  /\ stepGrads' = {}
  /\ Goto(EpochBody[1])
  /\ UNCHANGED <<envVars, fsVars, modelVars, epoch, elog, grads, found_inf, iters,
                 evalVars, ckptVars, summaries>>

\* the loader yields the next batch
train_fetch ==
  /\ pc = "train_one_epoch"
  /\ step < trainBatches
  /\ iters' = iters + 1
  /\ ops' = <<>>
  /\ Goto(IterBody[1])
  /\ UNCHANGED <<envVars, fsVars, modelVars, loopVars, step, grads, found_inf,
                 stepCalls, optSteps, stepGrads, evalVars, ckptVars, summaries>>

\* operation o of the batch body is done; after the last one the batch is done
OpDone(o) ==
  /\ pc = o
  /\ ops' = Append(ops, o)
  /\ IF AfterOp(o) = "batch_end"
     THEN step' = step + 1 /\ Goto("train_one_epoch")
     ELSE step' = step /\ Goto(AfterOp(o))
  /\ UNCHANGED <<envVars, fsVars, modelVars, loopVars, iters, evalVars, ckptVars,
                 summaries>>

zero_grad ==
  /\ OpDone("zero_grad")
  /\ grads' = ZeroGradResult(grads)
  /\ UNCHANGED <<found_inf, stepCalls, optSteps, stepGrads>>

forward ==
  /\ OpDone("forward")
  /\ UNCHANGED <<grads, found_inf, stepCalls, optSteps, stepGrads>>

backward ==
  /\ OpDone("backward")
  /\ grads' = grads + 1
  /\ UNCHANGED <<found_inf, stepCalls, optSteps, stepGrads>>

\* scaler.unscale_ divides the gradients by the scale and records inf/NaN
unscale ==
  /\ OpDone("unscale")
  /\ found_inf' \in BOOLEAN
  /\ UNCHANGED <<grads, stepCalls, optSteps, stepGrads>>

clip_grad_norm ==
  /\ OpDone("clip_grad_norm")
  /\ UNCHANGED <<grads, found_inf, stepCalls, optSteps, stepGrads>>

\* scaler.step(optimizer): optimizer.step() unless unscale_ found inf/NaN
scaler_step ==
  /\ OpDone("scaler_step")
  /\ stepCalls' = stepCalls + 1
  /\ optSteps' = IF found_inf THEN optSteps ELSE optSteps + 1
  /\ stepGrads' = stepGrads \cup {grads}
  /\ UNCHANGED <<grads, found_inf>>

scaler_update ==
  /\ OpDone("scaler_update")
  /\ UNCHANGED <<grads, found_inf, stepCalls, optSteps, stepGrads>>

\* steps = len(loader); running_loss / steps with steps = 0
train_one_epoch_raises ==
  /\ pc = "train_one_epoch"
  /\ step >= trainBatches
  /\ trainBatches = 0
  /\ Raise("ZeroDivisionError")
  /\ UNCHANGED <<envVars, fsVars, modelVars, loopVars, batchVars, evalVars, ckptVars,
                 summaries>>

train_one_epoch_returns ==
  /\ pc = "train_one_epoch"
  /\ step >= trainBatches
  /\ trainBatches # 0
  /\ elog' = Append(elog, "train_one_epoch")
  /\ Goto(AfterPhase("train_one_epoch"))
  /\ UNCHANGED <<envVars, fsVars, modelVars, epoch, epochLog, batchVars, evalVars,
                 ckptVars, summaries>>

\* one validation batch
eval_batch ==
  /\ pc = "evaluate"
  /\ vstep < valBatches
  /\ vstep' = vstep + 1
  /\ Goto("evaluate")
  /\ UNCHANGED <<envVars, fsVars, modelVars, loopVars, batchVars, evals, val_acc,
                 ckptVars, summaries>>

\* steps = len(loader); total_acc / steps is the validation accuracy
evaluate_returns ==
  /\ pc = "evaluate"
  /\ vstep >= valBatches
  /\ IF valBatches = 0
     THEN /\ Raise("ZeroDivisionError")
          /\ UNCHANGED <<elog, evalVars>>
     ELSE /\ val_acc' \in AccValues
          /\ evals' = evals + 1
          /\ vstep' = 0
          /\ elog' = Append(elog, "evaluate")
          /\ Goto(AfterPhase("evaluate"))
  /\ UNCHANGED <<envVars, fsVars, modelVars, epoch, epochLog, batchVars, ckptVars,
                 summaries>>

scheduler_step ==
  /\ pc = "scheduler_step"
  /\ elog' = Append(elog, "scheduler_step")
  /\ Goto(AfterPhase("scheduler_step"))
  /\ UNCHANGED <<envVars, fsVars, modelVars, epoch, epochLog, batchVars, evalVars,
                 ckptVars, summaries>>

\* the end-of-epoch summary line
print_summary ==
  /\ pc = "print_summary"
  /\ summaries' = summaries + 1
  /\ elog' = Append(elog, "print_summary")
  /\ Goto(AfterPhase("print_summary"))
  /\ UNCHANGED <<envVars, fsVars, modelVars, epoch, epochLog, batchVars, evalVars,
                 ckptVars>>

\* if val_acc > best_acc: best_acc = val_acc; save_checkpoint(...)
save_checkpoint ==
  /\ pc = "checkpoint"
  /\ Improves(val_acc, best_acc)
  /\ best_acc' = NewBest(val_acc, best_acc)
  /\ LET mk == Mkdir(outDir)
         ckpt == [name |-> CkptName(epoch, val_acc), epoch |-> epoch,
                  val_top1 |-> val_acc]
     IN IF mk.ok
        THEN /\ outDir' = mk.dir
             /\ files' = {f \in files : f.name # ckpt.name} \cup {ckpt}
             /\ written' = Append(written, ckpt)
             /\ accs' = Append(accs, val_acc)
             /\ elog' = Append(elog, "checkpoint")
             /\ Goto(AfterPhase("checkpoint"))
        ELSE /\ Raise("FileExistsError")
             /\ UNCHANGED <<fsVars, written, accs, elog>>
  /\ UNCHANGED <<envVars, modelVars, epoch, epochLog, batchVars, evalVars, summaries>>

\* val_acc <= best_acc: no action
no_checkpoint ==
  /\ pc = "checkpoint"
  /\ ~Improves(val_acc, best_acc)
  /\ accs' = Append(accs, val_acc)
  /\ elog' = Append(elog, "checkpoint")
  /\ Goto(AfterPhase("checkpoint"))
  /\ UNCHANGED <<envVars, fsVars, modelVars, epoch, epochLog, batchVars, evalVars,
                 best_acc, written, summaries>>

\* for epoch in range(1, cfg.epochs + 1): next value, or the loop and the process end
epoch_end ==
  /\ pc = "epoch_end"
  /\ IF epoch < cfg.epochs
     THEN epoch' = epoch + 1 /\ elog' = <<>> /\ Goto("epoch_start")
     ELSE epoch' = epoch /\ elog' = elog /\ pc' = "done" /\ exitCode' = 0
          /\ error' = error
  /\ UNCHANGED <<envVars, fsVars, modelVars, epochLog, batchVars, evalVars, ckptVars,
                 summaries>>

\* the process is interrupted inside an epoch; nothing handles the interrupt
interrupt ==
  /\ Running
  /\ epoch >= 1
  /\ pc' = "interrupted"
  /\ exitCode' = 130
  /\ error' = "KeyboardInterrupt"
  /\ UNCHANGED <<envVars, fsVars, modelVars, loopVars, batchVars, evalVars, ckptVars,
                 summaries>>

Next ==
  \/ build_dataloaders_raises
  \/ build_dataloaders
  \/ build_model
  \/ epoch_start
  \/ train_fetch
  \/ zero_grad
  \/ forward
  \/ backward
  \/ unscale
  \/ clip_grad_norm
  \/ scaler_step
  \/ scaler_update
  \/ train_one_epoch_raises
  \/ train_one_epoch_returns
  \/ eval_batch
  \/ evaluate_returns
  \/ scheduler_step
  \/ print_summary
  \/ save_checkpoint
  \/ no_checkpoint
  \/ epoch_end
  \/ interrupt

Spec == Init /\ [][Next]_vars

\* ------------------------------------------------------------------ claims

IsPrefix(s, t) == Len(s) <= Len(t) /\ \A i \in 1..Len(s) : s[i] = t[i]

MaxOf(S) == CHOOSE m \in S : \A x \in S : x <= m

\* save_checkpoint was called for epoch e in this run
WroteAt(e) == \E i \in 1..Len(written) : written[i].epoch = e

\* epoch e's validation accuracy strictly exceeds that of every previous epoch
ExceedsPrevious(e) == \A j \in 1..(e - 1) : accs[e] > accs[j]

NonIncreasing == \A i \in 1..(Len(accs) - 1) : accs[i + 1] <= accs[i]

\* C1 as stated: for every completed epoch e, a checkpoint is written at e if and
\* only if epoch e's validation accuracy strictly exceeds that of every previous
\* epoch of the run (vacuously so for e = 1).
C1_AsStated == \A e \in 1..Len(accs) : WroteAt(e) <=> ExceedsPrevious(e)

\* C1 amended: for every completed epoch e, a checkpoint is written at e if and
\* only if epoch e's validation accuracy is greater than zero and strictly exceeds
\* that of every previous epoch of the run.
C1_WrittenIffImprovesAboveZero ==
  \A e \in 1..Len(accs) : WroteAt(e) <=> (accs[e] > 0 /\ ExceedsPrevious(e))

C1_Witness ==
  /\ Len(accs) >= 2
  /\ accs[1] = 0
  /\ accs[2] > 0
  /\ ~WroteAt(1)
  /\ WroteAt(2)

\* C2 as stated: with non-increasing validation accuracies over the completed
\* epochs (at least one), exactly one checkpoint has been written, that of epoch 1.
C2_AsStated ==
  (Len(accs) >= 1 /\ NonIncreasing) => (Len(written) = 1 /\ written[1].epoch = 1)

\* C2 amended: with non-increasing validation accuracies over the completed epochs
\* (at least one), exactly one checkpoint has been written, that of epoch 1, when
\* epoch 1's accuracy is greater than zero, and none when it is zero.
C2_OneCheckpointUnlessZero ==
  (Len(accs) >= 1 /\ NonIncreasing) =>
    IF accs[1] > 0
    THEN Len(written) = 1 /\ written[1].epoch = 1 /\ written[1].val_top1 = accs[1]
    ELSE written = <<>>

C2_Witness ==
  /\ pc = "done"
  /\ Len(accs) >= 2
  /\ NonIncreasing
  /\ accs[1] > 0
  /\ accs[2] = accs[1]
  /\ Len(written) = 1

\* C3: when train/ or val/ is missing, the process never gets past the precondition
\* check: no model is built, no loader is used, no training iteration or evaluation
\* runs, no summary line is printed, the output directory and its files are
\* untouched, and the process ends with FileNotFoundError and a nonzero exit status.
C3_FailsBeforeTraining ==
  (~data.hasTrain \/ ~data.hasVal) =>
    /\ pc \in {"start", "failed"}
    /\ ~modelBuilt
    /\ iters = 0
    /\ evals = 0
    /\ summaries = 0
    /\ epochLog = <<>>
    /\ written = <<>>
    /\ outDir = outDir0
    /\ files = files0
    /\ pc = "failed" => (error = "FileNotFoundError" /\ exitCode # 0)

C3_Witness ==
  /\ data.hasTrain
  /\ ~data.hasVal
  /\ pc = "failed"
  /\ error = "FileNotFoundError"

C4_Scenario ==
  /\ cfg.epochs = 1
  /\ cfg.batch_size = DefaultBatchSize
  /\ cfg.num_classes = {}
  /\ data.hasTrain
  /\ data.hasVal
  /\ data.classes = 2
  /\ data.nTrain = 4
  /\ data.nVal = 2

\* C4: a run with epochs=1 and the default batch size on a 2-class dataset of 4
\* training and 2 validation images does not fail, and when it ends it has printed
\* one summary line, written one checkpoint and exits with status 0.
C4_SmallRunCompletes ==
  C4_Scenario =>
    /\ pc # "failed"
    /\ pc = "done" => (summaries = 1 /\ Len(written) = 1 /\ exitCode = 0)

\* C5: the head of the built model has N outputs when cfg.num_classes is None and
\* cfg.num_classes outputs whenever cfg.num_classes is not None.
C5_HeadMatchesOverride ==
  modelBuilt =>
    headOut = IF cfg.num_classes = {}
              THEN data.classes
              ELSE CHOOSE v \in cfg.num_classes : TRUE

ImprovingEpochs == {e \in 1..Len(accs) : accs[e] > 0 /\ ExceedsPrevious(e)}

\* C7: in a run that started from an empty output directory, the checkpoints written
\* have pairwise distinct file names, the directory holds as many files as there were
\* improving epochs, and every improving epoch has a file whose name encodes the
\* epoch and which records that epoch and its validation accuracy.
C7_OneFilePerImprovingEpoch ==
  files0 = {} =>
    /\ \A i, j \in 1..Len(written) : written[i].name = written[j].name => i = j
    /\ Cardinality(files) = Cardinality(ImprovingEpochs)
    /\ \A e \in ImprovingEpochs :
         \E f \in files :
           /\ f.epoch = e
           /\ f.val_top1 = accs[e]
           /\ e < 10 => f.name[2] = <<0, 0, e>>

C7_Witness ==
  /\ files0 = {}
  /\ Len(written) >= 2
  /\ written[1].name[4] = written[2].name[4]
  /\ Cardinality(files) >= 2

C9_Order ==
  /\ IsPrefix(ops, <<"zero_grad", "forward", "backward", "unscale", "clip_grad_norm",
                     "scaler_step", "scaler_update">>)
  /\ grads <= 1
  /\ stepGrads \subseteq {1}
  /\ step <= stepCalls
  /\ stepCalls <= step + 1
  /\ "train_one_epoch" \in Range(elog) => (step = trainBatches /\ stepCalls = trainBatches)

C10_Inv ==
  /\ best_acc = MaxOf({0} \cup Range(accs))
  /\ written # <<>> => written[Len(written)].val_top1 = best_acc
  /\ \A i, j \in 1..Len(written) :
       i < j => (written[i].val_top1 < written[j].val_top1
                 /\ written[i].epoch < written[j].epoch)

\* C10: best_acc is the maximum of 0 and the validation accuracies of the completed
\* epochs; it never decreases; the last checkpoint written records best_acc; and the
\* accuracies recorded by the checkpoints of a run increase strictly in epoch order.
C10_BestAcc == [](C10_Inv) /\ [][best_acc' >= best_acc]_vars

C10_Witness ==
  /\ Len(accs) >= 3
  /\ Len(written) = 2
  /\ accs[3] < best_acc
  /\ written[2].epoch = 2

====
